---- MODULE Spec2Model ----
(***************************************************************************)
(* Model of h_a_kvnl.py: a codec for a hierarchical, annotated key-value   *)
(* notation.  read/read_single decode a flat stream of records into nested *)
(* values; write/write_single flatten nested values into a record stream.  *)
(*                                                                         *)
(* Representation.                                                         *)
(*  - A Python str (key, annotation, prefix) is a sequence of one-character *)
(*    strings, so that startswith, removeprefix, split and concatenation   *)
(*    are computed and not assumed.                                        *)
(*  - A scalar (bytes) is a TLA+ string; b'' is "" (the only falsy one).    *)
(*  - An optional Python value is None == <<>> or Some(x) == <<x>>.        *)
(*  - A value is a record [t, a, v, c]: t its Python type, a the optional *)
(*    annotation, v the scalar part, c the optional children.  A dict       *)
(*    keeps its items, in insertion order, in c as <<key, value>> pairs; a *)
(*    list keeps its elements in c as one-element tuples <<value>>.        *)
(*  - An item of a record stream is [i, k, p]: i = "rec" for a (key,       *)
(*    payload) tuple, "nl" for the terminal marker '\n', "none" for None.  *)
(***************************************************************************)
EXTENDS Integers, Sequences, FiniteSets, TLC

\* ---------------------------------------------------------------- bounds
MaxNodes == 3       \* nodes (scalars and composites) of an encoder input
MaxStream == 3      \* items of a raw record stream handed to the decoder
MaxChildren == 3    \* records of a Map or List block, entries of a dict
MaxYields == 4      \* items taken from read over a list before the caller gives up

\* ------------------------------------------------------------ Python str
GT == ">"

StartsWith(s, p) ==
    /\ Len(p) <= Len(s)
    /\ SubSeq(s, 1, Len(p)) = p

\* the key handed on with its prefix still on it
RemovePrefix_Keep(s, p) == s

\* key.removeprefix(prefix)
RemovePrefix(s, p) ==
    IF StartsWith(s, p) THEN SubSeq(s, Len(p) + 1, Len(s)) ELSE s

Contains(s, ch) == \E n \in 1..Len(s) : s[n] = ch

IndexOf(s, ch) == CHOOSE n \in 1..Len(s) : s[n] = ch /\ \A m \in 1..(n - 1) : s[m] # ch

\* annotation.split('>', maxsplit=1) for an annotation that contains '>'
SplitHead(s) == SubSeq(s, 1, IndexOf(s, GT) - 1)
SplitTail(s) == SubSeq(s, IndexOf(s, GT) + 1, Len(s))

RECURSIVE Join(_)
\* "".join(prefixes)
Join(ps) == IF ps = <<>> THEN <<>> ELSE Head(ps) \o Join(Tail(ps))

\* ---------------------------------------------------------------- values
None == <<>>
Some(x) == <<x>>

\* truthiness of a scalar: `if value:`
Truthy(b) == b # ""

Scalar(b) == [t |-> "scalar", a |-> None, v |-> b, c |-> None]
Tuple2(annotation, b) == [t |-> "tuple", a |-> Some(annotation), v |-> b, c |-> None]
Dict(items) == [t |-> "dict", a |-> None, v |-> "", c |-> Some(items)]
List(elems) == [t |-> "list", a |-> None, v |-> "", c |-> Some(elems)]

\* HierarchicalValue keeps `children` as it was given.  read_single gives it
\* the read generator of the block: the value then carries no children of its
\* own (c = None) and the generator lives in gens.
HierarchicalValue(annotation, value, children) ==
    [t |-> "HierarchicalValue", a |-> Some(annotation), v |-> value, c |-> children]

\* HierarchicalValueTuple materialises: tuple(children)
HierarchicalValueTuple(annotation, value, children) ==
    [t |-> "HierarchicalValueTuple", a |-> Some(annotation), v |-> value, c |-> Some(children)]

\* ---------------------------------------------------------- stream items
NoPayload == Scalar("")
Rec(key, payload) == [i |-> "rec", k |-> key, p |-> payload]
NL == [i |-> "nl", k |-> <<>>, p |-> NoPayload]
Skip == [i |-> "none", k |-> <<>>, p |-> NoPayload]

\* ------------------------------------------------------------ registries
Map_ == <<"M", "a", "p">>
M_ == <<"M">>
List_ == <<"L", "i", "s", "t">>
L_ == <<"L">>

DECODERS ==
    << [aliases |-> {Map_, M_}, handler |-> "decode_map"],
       [aliases |-> {List_, L_}, handler |-> "decode_list"] >>

ENCODERS ==
    << [aliases |-> {Map_, M_}, handler |-> "encode_map"],
       [aliases |-> {List_, L_}, handler |-> "encode_list"] >>

TYPES == << [type |-> "dict", annotation |-> M_], [type |-> "list", annotation |-> L_] >>

\* the last entry whose alias set holds the tag, 0 when none does
Lookup_Last(registry, annotation) ==
    IF \E n \in 1..Len(registry) : annotation \in registry[n].aliases
    THEN CHOOSE n \in 1..Len(registry) :
            /\ annotation \in registry[n].aliases
            /\ \A m \in (n + 1)..Len(registry) : annotation \notin registry[m].aliases
    ELSE 0

\* `for annotations, f in registry.items(): if annotation in annotations`:
\* the index of the first entry whose alias set holds the tag, 0 when none does
Lookup(registry, annotation) ==
    IF \E n \in 1..Len(registry) : annotation \in registry[n].aliases
    THEN CHOOSE n \in 1..Len(registry) :
            /\ annotation \in registry[n].aliases
            /\ \A m \in 1..(n - 1) : annotation \notin registry[m].aliases
    ELSE 0

\* --------------------------------------------------------------- decoder
\* The outcome of advancing a generator once.  st: "pair" (a (key, value)
\* tuple was yielded), "skip" (None was yielded), "nl" ('\n' was yielded),
\* "stop" (the generator returned) or the exception raised.  pos: items
\* pulled from the shared stream so far.  lazy/np: the yielded value holds
\* the not yet started read generator of its block, whose prefix is np.
Errors == {"EOFError", "DecodingError", "TypeError"}

Yield(st, pos, key, val) ==
    [st |-> st, pos |-> pos, key |-> key, val |-> val, msg |-> "", lazy |-> FALSE, np |-> <<>>]
YieldLazy(pos, key, val, np) ==
    [st |-> "pair", pos |-> pos, key |-> key, val |-> val, msg |-> "", lazy |-> TRUE, np |-> np]
Raise(st, pos, msg) ==
    [st |-> st, pos |-> pos, key |-> <<>>, val |-> NoPayload, msg |-> msg, lazy |-> FALSE, np |-> <<>>]

\* a dict that keeps the value a key was first given
DictSet_FirstWins(items, key, val) ==
    IF \E n \in 1..Len(items) : items[n][1] = key
    THEN items
    ELSE Append(items, <<key, val>>)

\* d[key] = value on an insertion-ordered dict
DictSet(items, key, val) ==
    IF \E n \in 1..Len(items) : items[n][1] = key
    THEN [n \in 1..Len(items) |-> IF items[n][1] = key THEN <<key, val>> ELSE items[n]]
    ELSE Append(items, <<key, val>>)

\* `annotation is None or '>' not in annotation`
IsLeaf(payload) == payload.a = None \/ ~Contains(payload.a[1], GT)

\* the block's prefix taken from the annotation alone
NextPrefix_SuffixOnly(prefix, annotation) == SplitTail(annotation)

\* prefix + next_prefix
NextPrefix(prefix, annotation) == prefix \o SplitTail(annotation)

\* a check of the key that lets every key through
ensure_empty_key_lenient(key, value) == [st |-> "ok", val |-> value]

\* ensure_empty_key(key, value): the value, or DecodingError when `if key:`
ensure_empty_key(key, value) ==
    IF key # <<>>
    THEN [st |-> "DecodingError", val |-> value]
    ELSE [st |-> "ok", val |-> value]

RECURSIVE ReadSingleNext(_, _, _, _)
RECURSIVE Consume(_, _, _, _, _, _)

\* One next() on read(stream, decoders, default, prefix): read forwards what
\* read_single yields, except '\n', on which it returns.
ReadNext(s, pos, cfg, prefix) ==
    LET r == ReadSingleNext(s, pos, cfg, prefix) IN
    IF r.st = "nl" THEN [r EXCEPT !.st = "stop"] ELSE r

\* A consumer that exhausts the read generator of a block:
\*   "dict"  - dict(stream) in decode_map
\*   "list"  - list(ensure_empty_key(key, value) for key, value in stream)
\*   "tuple" - tuple(children) in HierarchicalValueTuple
\* acc is what it has collected; the result's st is "ok" or the exception.
Consume(kind, s, pos, cfg, prefix, acc) ==
    LET r == ReadNext(s, pos, cfg, prefix) IN
    CASE r.st = "stop" -> [st |-> "ok", pos |-> r.pos, items |-> acc, msg |-> ""]
      [] r.st \in Errors -> [st |-> r.st, pos |-> r.pos, items |-> acc, msg |-> r.msg]
      [] r.st = "skip" ->
            IF kind = "tuple"
            THEN Consume(kind, s, r.pos, cfg, prefix, Append(acc, <<>>))
            ELSE [st |-> "TypeError", pos |-> r.pos, items |-> acc, msg |-> "None is not a pair"]
      [] r.st = "pair" ->
            CASE kind = "dict" ->
                    Consume(kind, s, r.pos, cfg, prefix, DictSet(acc, r.key, r.val))
              [] kind = "list" ->
                    LET e == ensure_empty_key(r.key, r.val) IN
                    IF e.st # "ok"
                    THEN [st |-> e.st, pos |-> r.pos, items |-> acc,
                          msg |-> "key is supposed to be empty"]
                    ELSE Consume(kind, s, r.pos, cfg, prefix, Append(acc, <<e.val>>))
              [] OTHER ->
                    Consume(kind, s, r.pos, cfg, prefix, Append(acc, <<r.key, r.val>>))

\* decode_map(value, stream) / decode_list(value, stream), called with the
\* read generator of the block that starts at pos
Decode(handler, key, value, s, pos, cfg, prefix) ==
    IF Truthy(value)
    THEN Raise("DecodingError", pos, "value is supposed to be empty")
    ELSE LET kind == IF handler = "decode_map" THEN "dict" ELSE "list"
             d == Consume(kind, s, pos, cfg, prefix, <<>>)
         IN  IF d.st # "ok" THEN Raise(d.st, d.pos, d.msg)
             ELSE Yield("pair", d.pos, key,
                        IF kind = "dict" THEN Dict(d.items) ELSE List(d.items))

\* the generic fallback taken whatever the default argument is
Default_AlwaysGeneric(key, annotation, value, s, pos, cfg, prefix) ==
    LET d == Consume("tuple", s, pos, cfg, prefix, <<>>)
    IN  IF d.st # "ok" THEN Raise(d.st, d.pos, d.msg)
        ELSE Yield("pair", d.pos, key, HierarchicalValueTuple(annotation, value, d.items))

\* default(annotation, value, children) when no decoder matched
Default(key, annotation, value, s, pos, cfg, prefix) ==
    IF cfg.default = "raise_decoding_error"
    THEN Raise("DecodingError", pos, "unrecognized annotation")
    ELSE LET d == Consume("tuple", s, pos, cfg, prefix, <<>>)
         IN  IF d.st # "ok" THEN Raise(d.st, d.pos, d.msg)
             ELSE Yield("pair", d.pos, key, HierarchicalValueTuple(annotation, value, d.items))

\* One next() on read_single(stream, decoders, default, prefix), from its
\* start or after it yielded None: the body of `for line in stream` up to
\* the next yield or raise.
ReadSingleNext(s, pos, cfg, prefix) ==
    IF pos >= Len(s) THEN Raise("EOFError", pos, "")
    ELSE
    LET line == s[pos + 1]
        p1 == pos + 1
    IN
    CASE line.i = "none" -> Yield("skip", p1, <<>>, NoPayload)
      [] line.i = "nl" -> Yield("nl", p1, <<>>, NoPayload)
      [] OTHER ->
        IF ~StartsWith(line.k, prefix)
        THEN Raise("DecodingError", p1, "key is supposed to start with prefix")
        ELSE
        LET key == RemovePrefix(line.k, prefix)
            orig_value == line.p
        IN
        IF IsLeaf(orig_value) THEN Yield("pair", p1, key, orig_value)
        ELSE
        LET annotation == SplitHead(orig_value.a[1])
            value == orig_value.v
            next_prefix == NextPrefix(prefix, orig_value.a[1])
        IN
        IF cfg.decoders = None
        THEN YieldLazy(p1, key, HierarchicalValue(annotation, value, None), next_prefix)
        ELSE
        LET n == Lookup(cfg.decoders[1], annotation) IN
        IF n # 0
        THEN Decode(cfg.decoders[1][n].handler, key, value, s, p1, cfg, next_prefix)
        ELSE Default(key, annotation, value, s, p1, cfg, next_prefix)

\* --------------------------------------------------------------- encoder
\* What a generator of records produced before it stopped: out, the items
\* it yielded, and err, "none" when it returned or the exception it raised.
\* An input of write is described the same way: the lines the iterable
\* gives, then how iterating it ends.
Lines(items) == [items |-> items, err |-> "none"]
Failing(items, err) == [items |-> items, err |-> err]

\* a line of the encoder's input: None is <<>>, '\n' is <<"\n">>, a
\* (key, value) tuple is <<key, value>>
NoneLine == <<>>
NLLine == <<"\n">>

\* every key taken for a str
IsStr_Any(key) == TRUE

\* isinstance(key, str): a key that is not a str is written <<"int">>
IsStr(key) == \A n \in 1..Len(key) : key[n] # "int"

\* The Python class of `children` after destructuring and type detection
ChildrenClass(x, detected) ==
    CASE detected -> x.t
      [] x.c = None -> "NoneType"
      [] OTHER -> "tuple"

RECURSIVE EncodeMapFrom(_, _)
\* `for key, value in children.items()` of encode_map, from item n on
EncodeMapFrom(items, n) ==
    IF n > Len(items) THEN Lines(<<>>)
    ELSE IF ~IsStr(items[n][1]) THEN Failing(<<>>, "ValueError")
    ELSE LET rest == EncodeMapFrom(items, n + 1)
         IN  Failing(<<items[n]>> \o rest.items, rest.err)

\* encode_map(value, children)
encode_map(value, children, class) ==
    IF Truthy(value) THEN Failing(<<>>, "DecodingError")
    ELSE IF class # "dict" THEN Failing(<<>>, "AttributeError")
    ELSE EncodeMapFrom(children[1], 1)

\* encode_list yielding the elements last to first
encode_list_reversed(value, children, class) ==
    IF Truthy(value) THEN Failing(<<>>, "DecodingError")
    ELSE IF class = "NoneType" THEN Failing(<<>>, "TypeError")
    ELSE IF class # "list" THEN Failing(<<>>, "Unmodelled")
    ELSE Lines([n \in 1..Len(children[1]) |->
                    << <<>>, children[1][Len(children[1]) + 1 - n][1] >>])

\* encode_list(value, children)
encode_list(value, children, class) ==
    IF Truthy(value) THEN Failing(<<>>, "DecodingError")
    ELSE IF class = "NoneType" THEN Failing(<<>>, "TypeError")
    ELSE IF class # "list" THEN Failing(<<>>, "Unmodelled")
    ELSE Lines([n \in 1..Len(children[1]) |-> << <<>>, children[1][n][1] >>])

\* a detection that finds no type
Detect_Never(types, x) == 0

\* `for t, a in types.items(): if isinstance(value, t)`: the index of the
\* first entry of types whose type the value has, 0 when none
Detect(types, x) ==
    IF \E n \in 1..Len(types) : types[n].type = x.t
    THEN CHOOSE n \in 1..Len(types) :
            /\ types[n].type = x.t
            /\ \A m \in 1..(n - 1) : types[m].type # x.t
    ELSE 0

\* the header annotation without the prefix the block's keys are written with
FullAnnotation_NoPrefix(annotation, prefix) == annotation \o <<GT>>

\* f'{annotation}>{prefix}'
FullAnnotation(annotation, prefix) == annotation \o <<GT>> \o prefix

\* the lines handed to the nested write: encode(value, children) of the
\* first matching encoder, else (default is None) the children themselves
NestedLines(encoders, annotation, value, children, class) ==
    LET n == Lookup(encoders, annotation) IN
    CASE n # 0 /\ encoders[n].handler = "encode_map" -> encode_map(value, children, class)
      [] n # 0 /\ encoders[n].handler = "encode_list" -> encode_list(value, children, class)
      [] n = 0 /\ children = None -> Failing(<<>>, "TypeError")
      [] OTHER -> Lines(children[1])

\* the key written as it was given
PrefixedKey_Bare(prefixes, key) == key

\* f'{"".join(prefixes)}{key}'
PrefixedKey(prefixes, key) == Join(prefixes) \o key

\* children taken as absent whatever they are
HasChildren_Never(children) == FALSE

\* `children is not None`
HasChildren(children) == children # None

RECURSIVE WriteSingle(_, _, _, _, _)
RECURSIVE WriteFrom(_, _, _, _, _, _)

\* write(lines, encoders, None, types, prefix, prefixes)
Write(lines, encoders, types, prefix, prefixes) ==
    WriteFrom(lines, 1, encoders, types, prefix, prefixes)

\* the loop of write from line n on, and the final yield '\n'
WriteFrom(lines, n, encoders, types, prefix, prefixes) ==
    IF n > Len(lines.items)
    THEN IF lines.err = "none" THEN [out |-> <<NL>>, err |-> "none"]
         ELSE [out |-> <<>>, err |-> lines.err]
    ELSE LET r == WriteSingle(lines.items[n], encoders, types, prefix, prefixes) IN
         IF r.err # "none" THEN r
         ELSE LET rest == WriteFrom(lines, n + 1, encoders, types, prefix, prefixes)
              IN  [out |-> r.out \o rest.out, err |-> rest.err]

\* write_single(key_and_value, encoders, None, types, prefix, prefixes)
WriteSingle(key_and_value, encoders, types, prefix, prefixes) ==
    IF key_and_value = NoneLine THEN [out |-> <<Skip>>, err |-> "none"]
    ELSE IF Len(key_and_value) = 1 THEN [out |-> <<NL>>, err |-> "none"]
    ELSE
    LET x == key_and_value[2]
        key == PrefixedKey(prefixes, key_and_value[1])
        n == IF x.a = None /\ x.t \in {"dict", "list"} THEN Detect(types, x) ELSE 0
        annotation == IF n # 0 THEN Some(types[n].annotation) ELSE x.a
        value == IF n # 0 THEN "" ELSE x.v
        children == IF x.t \in {"dict", "list"} /\ n = 0 THEN None ELSE x.c
        class == ChildrenClass(x, n # 0)
    IN
    IF annotation = None
    THEN IF HasChildren(children) THEN [out |-> <<>>, err |-> "DecodingError"]
         ELSE [out |-> <<Rec(key, IF x.t \in {"dict", "list"} THEN x ELSE Scalar(value))>>,
               err |-> "none"]
    ELSE
    LET header == Rec(key, Tuple2(FullAnnotation(annotation[1], prefix), value))
        nested == Write(NestedLines(encoders, annotation[1], value, children, class),
                        encoders, types, prefix, Append(prefixes, prefix))
    IN  [out |-> <<header>> \o nested.out, err |-> nested.err]

\* ---------------------------------------------------------------- inputs
Scalars == {"", "v"}
DictKeys == {<<"a">>, <<"b">>}
ChildKeys == {<<"a">>}
X_ == <<"x">>

\* values of one node: scalars, an annotated scalar (annotation, scalar),
\* and the empty composites
Atoms ==
    {Scalar(b) : b \in Scalars}
        \cup {Tuple2(X_, "v"), Dict(<<>>), List(<<>>), HierarchicalValueTuple(X_, "v", <<>>)}

Keyed(f, keys) == {[n \in 1..Len(f) |-> <<ks[n], f[n]>>] : ks \in [1..Len(f) -> keys]}
KeyedUnique(f, keys) ==
    {[n \in 1..Len(f) |-> <<ks[n], f[n]>>] :
        ks \in {h \in [1..Len(f) -> keys] : \A m, n \in 1..Len(f) : h[m] = h[n] => m = n}}

RECURSIVE ValuesOfSize(_)
RECURSIVE Forests(_)

\* the sequences of values that have n nodes in all
Forests(n) ==
    IF n = 0 THEN {<<>>}
    ELSE UNION {{<<x>> \o f : x \in ValuesOfSize(k), f \in Forests(n - k)} : k \in 1..n}

\* the values of n nodes: a dict with str keys, a list, or a generic
\* hierarchical value with an unregistered tag, over n - 1 nodes of children
ValuesOfSize(n) ==
    IF n = 1 THEN Atoms
    ELSE LET F == Forests(n - 1) IN
         {Dict(items) : items \in UNION {KeyedUnique(f, DictKeys) : f \in F}}
            \cup {List([n1 \in 1..Len(f) |-> <<f[n1]>>]) : f \in F}
            \cup {HierarchicalValueTuple(X_, "v", ch) : ch \in UNION {Keyed(f, ChildKeys) : f \in F}}

\* the inputs of write: (key, value) lines of at most MaxNodes nodes in all
Inputs == UNION {UNION {Keyed(f, {<<"k">>}) : f \in Forests(n)} : n \in 0..MaxNodes}

WritePrefixes == {<<>>, <<"p">>}

\* the items a raw record stream is made of
RawItems ==
    { NL, Skip,
      Rec(<<"a">>, Scalar("v")),
      Rec(<<>>, Scalar("v")),
      Rec(<<"p", "a">>, Scalar("v")),
      Rec(<<"p", "q", "a">>, Scalar("v")),
      Rec(<<"a">>, Tuple2(X_, "v")),
      Rec(<<"a">>, Tuple2(<<"M", GT>>, "")),
      Rec(<<"a">>, Tuple2(<<"L", GT>>, "")),
      Rec(<<"a">>, Tuple2(<<"x", GT, "p">>, "v")),
      Rec(<<"p", "a">>, Tuple2(<<"x", GT, "q">>, "v")) }

RECURSIVE StreamsOfLen(_)
StreamsOfLen(n) ==
    IF n = 0 THEN {<<>>} ELSE {Append(s, x) : s \in StreamsOfLen(n - 1), x \in RawItems}

RawStreams == UNION {StreamsOfLen(n) : n \in 0..MaxStream}

\* read's decoders and default arguments: the defaults of the signature,
\* and default=None (the generic fallback)
RegistryConfigs ==
    { [decoders |-> Some(DECODERS), default |-> "raise_decoding_error"],
      [decoders |-> Some(DECODERS), default |-> "None"] }

\* ... and decoders=None
Configs == RegistryConfigs \cup {[decoders |-> None, default |-> "raise_decoding_error"]}

\* ----------------------------------------------------------------- state
VARIABLES
    origin,     \* "write": the stream is write(lines, prefix=wprefix); "raw": it is
                \* iter(wire) for a given wire; "list": it is the list wire itself
    lines,      \* the (key, value) lines handed to write
    wprefix,    \* write's prefix argument
    wire,       \* the items of the record stream: yielded by write so far, or given
    wst,        \* write: "running", "done" (returned) or the exception it raised
    wcfg,       \* write's encoders and types arguments
    cfg,        \* read's decoders and default arguments
    pos,        \* number of items pulled from the shared stream iterator
    gens,       \* the read generators: gens[1] is read(stream), the others are the
                \* children of the HierarchicalValue at gens[parent].items[slot]
    last        \* the latest next(): generator, pos before it, outcome

vars == <<origin, lines, wprefix, wire, wst, wcfg, cfg, pos, gens, last>>

Generator(prefix, parent, slot, hdr) ==
    [prefix |-> prefix, st |-> "live", items |-> <<>>, parent |-> parent, slot |-> slot,
     hdr |-> hdr]

NoPull == [g |-> 0, from |-> 0, r |-> Raise("none", 0, "")]

\* write's encoders and types arguments left at their defaults
DefaultWrite == [encoders |-> ENCODERS, types |-> TYPES]

Init ==
    /\ pos = 0
    /\ wcfg = DefaultWrite
    /\ gens = <<Generator(<<>>, 0, 0, 0)>>
    /\ last = NoPull
    /\ \/ /\ origin = "write"
          /\ lines \in Inputs
          /\ cfg \in RegistryConfigs
          /\ wprefix \in WritePrefixes
          /\ wire = <<>>
          /\ wst = "running"
       \/ /\ origin = "raw"
          /\ lines = <<>>
          /\ wprefix = <<>>
          /\ wire \in RawStreams
          /\ cfg \in Configs
          /\ wst = "done"

\* everything list(write(lines, prefix=wprefix)) yields, and how it ends
Written == Write(Lines(lines), wcfg.encoders, wcfg.types, wprefix, <<>>)

\* next() on write(...) yields a record
WriteNext ==
    /\ wst = "running"
    /\ Len(wire) < Len(Written.out)
    /\ wire' = Append(wire, Written.out[Len(wire) + 1])
    /\ UNCHANGED <<origin, lines, wprefix, wst, wcfg, cfg, pos, gens, last>>

\* next() on write(...) returns or raises
WriteEnd ==
    /\ wst = "running"
    /\ Len(wire) = Len(Written.out)
    /\ wst' = IF Written.err = "none" THEN "done" ELSE Written.err
    /\ UNCHANGED <<origin, lines, wprefix, wire, wcfg, cfg, pos, gens, last>>

\* Where the read_single that serves the next pull starts.  read_single
\* begins with `stream = iter(stream)`: on an iterator that is the iterator
\* itself, on a list it is a new iterator at the first item.  read calls
\* read_single anew after each (key, value) it forwarded; after a forwarded
\* None the same read_single, with its iterator, goes on.
StartOfPull ==
    IF origin = "list" /\ last.r.st # "skip" THEN 0 ELSE pos

\* next() on the read generator g over the stream
Pull(g) ==
    /\ wst = "done"
    /\ gens[g].st = "live"
    /\ origin = "list" => Len(gens[g].items) < MaxYields
    /\ LET r == ReadNext(wire, StartOfPull, cfg, gens[g].prefix)
           yielded == IF r.st = "pair" THEN <<r.key, r.val>> ELSE <<>>
           g1 == [gens[g] EXCEPT
                    !.st = IF r.st \in {"pair", "skip"} THEN "live"
                           ELSE IF r.st = "stop" THEN "stopped" ELSE r.st,
                    !.items = IF r.st \in {"pair", "skip"} THEN Append(@, yielded) ELSE @]
           gs == [gens EXCEPT ![g] = g1]
       IN  /\ pos' = r.pos
           /\ gens' = IF r.lazy
                      THEN Append(gs, Generator(r.np, g, Len(g1.items), r.pos))
                      ELSE gs
           /\ last' = [g |-> g, from |-> StartOfPull, r |-> r]
    /\ UNCHANGED <<origin, lines, wprefix, wire, wst, wcfg, cfg>>

Next ==
    \/ WriteNext
    \/ WriteEnd
    \/ \E g \in 1..Len(gens) : Pull(g)

Spec == Init /\ [][Next]_vars

\* ------------------------------------------- further inputs: blocks of
\* records for the built-in decoders, registries whose alias sets overlap,
\* dicts with keys that are not str, values with children and no
\* annotation, and streams handed to read as a list
T_ == <<"T">>
NotStr == <<"int">>

\* decoder and encoder registries in which the tag T is in both alias sets
MapFirstDecoders ==
    << [aliases |-> {Map_, M_, T_}, handler |-> "decode_map"],
       [aliases |-> {List_, L_, T_}, handler |-> "decode_list"] >>
ListFirstDecoders == <<MapFirstDecoders[2], MapFirstDecoders[1]>>
MapFirstEncoders ==
    << [aliases |-> {Map_, M_, T_}, handler |-> "encode_map"],
       [aliases |-> {List_, L_, T_}, handler |-> "encode_list"] >>
ListFirstEncoders == <<MapFirstEncoders[2], MapFirstEncoders[1]>>

\* types tables: a list detected as T, and the long spellings of the tags
ListAsT == << [type |-> "list", annotation |-> T_] >>
LongTypes == << [type |-> "dict", annotation |-> Map_], [type |-> "list", annotation |-> List_] >>

BlockReadConfigs ==
    RegistryConfigs
        \cup { [decoders |-> Some(MapFirstDecoders), default |-> "raise_decoding_error"],
               [decoders |-> Some(ListFirstDecoders), default |-> "raise_decoding_error"] }

BlockWriteConfigs ==
    { DefaultWrite,
      [encoders |-> ENCODERS, types |-> LongTypes],
      [encoders |-> MapFirstEncoders, types |-> ListAsT],
      [encoders |-> ListFirstEncoders, types |-> ListAsT] }

RECURSIVE SeqsUpTo(_, _)
\* the sequences of at most n elements of S
SeqsUpTo(S, n) ==
    IF n = 0 THEN {<<>>}
    ELSE LET shorter == SeqsUpTo(S, n - 1)
         IN  shorter \cup {Append(q, x) : q \in {r \in shorter : Len(r) = n - 1}, x \in S}

\* a header of a block, and the items found inside a block
BlockHeaders == {Rec(<<"k">>, Tuple2(tag \o <<GT>>, "")) : tag \in {M_, Map_, L_, List_, T_}}
BlockItems ==
    { Skip,
      Rec(<<"a">>, Scalar("v")), Rec(<<"a">>, Scalar("")), Rec(<<"b">>, Scalar("v")),
      Rec(<<>>, Scalar("v")), Rec(<<>>, Scalar("")) }

\* one block, closed, then the end of the enclosing block or nothing
BlockStreams ==
    {<<h>> \o ch \o <<NL>> \o tail :
        h \in BlockHeaders, ch \in SeqsUpTo(BlockItems, MaxChildren),
        tail \in {<<>>, <<NL>>, <<Skip, NL>>}}

\* a value with children and annotation None
NoAnnotation(value, children) ==
    [t |-> "HierarchicalValueTuple", a |-> None, v |-> value, c |-> Some(children)]

ScalarValues == {Scalar(b) : b \in Scalars}
BlockDicts ==
    {Dict(items) :
        items \in UNION {KeyedUnique(f, DictKeys \cup {NotStr}) :
                            f \in SeqsUpTo(ScalarValues, MaxChildren)}}
BlockLists == {List([n \in 1..Len(f) |-> <<f[n]>>]) : f \in SeqsUpTo(ScalarValues, MaxChildren)}
Orphans == {NoAnnotation("v", ch) : ch \in {<<>>, << <<<<"a">>, Scalar("v")>> >>}}

BlockValues ==
    BlockDicts \cup BlockLists \cup Orphans
        \cup {Dict(<< <<<<"a">>, x>>, <<<<"b">>, Scalar("v")>> >>) :
                x \in {Dict(<< <<NotStr, Scalar("v")>> >>)} \cup Orphans}
        \cup {HierarchicalValueTuple(X_, "v", << <<<<"a">>, x>> >>) : x \in ScalarValues \cup Orphans}

\* one value, alone, before a sibling or after one
BlockInputs ==
    UNION {{ << <<<<"k">>, x>> >>,
             << <<<<"k">>, x>>, <<<<"j">>, Scalar("v")>> >>,
             << <<<<"j">>, Scalar("v")>>, <<<<"k">>, x>> >> } : x \in BlockValues}

\* the lists handed to read as they are
ListItems == {NL, Skip, Rec(<<"a">>, Scalar("v")), Rec(<<"a">>, Tuple2(<<"M", GT>>, ""))}
ListStreams == SeqsUpTo(ListItems, MaxStream)

InitBlocks ==
    /\ pos = 0
    /\ gens = <<Generator(<<>>, 0, 0, 0)>>
    /\ last = NoPull
    /\ \/ /\ origin = "write"
          /\ lines \in BlockInputs
          /\ cfg = [decoders |-> Some(DECODERS), default |-> "raise_decoding_error"]
          /\ wcfg \in BlockWriteConfigs
          /\ wprefix \in WritePrefixes
          /\ wire = <<>>
          /\ wst = "running"
       \/ /\ origin = "raw"
          /\ lines = <<>>
          /\ wprefix = <<>>
          /\ wcfg = DefaultWrite
          /\ wire \in BlockStreams
          /\ cfg \in BlockReadConfigs
          /\ wst = "done"
       \/ /\ origin = "list"
          /\ lines = <<>>
          /\ wprefix = <<>>
          /\ wcfg = DefaultWrite
          /\ wire \in ListStreams
          /\ cfg \in RegistryConfigs
          /\ wst = "done"

SpecBlocks == InitBlocks /\ [][Next]_vars

TypeOK ==
    /\ origin \in {"raw", "write", "list"}
    /\ pos \in 0..Len(wire)
    /\ wst \in {"running", "done", "TypeError", "DecodingError", "ValueError", "AttributeError"}

\* ------------------------------------------------------ round trip claims
DefaultConfig == [decoders |-> Some(DECODERS), default |-> "raise_decoding_error"]
FallbackConfig == [decoders |-> Some(DECODERS), default |-> "None"]

\* what list(read(stream)) has given so far, and whether read has ended
Decoded == gens[1].items
ReadReturned == gens[1].st = "stopped"
ReadRaised == gens[1].st \in Errors
WriteRaised == wst \notin {"running", "done"}

RECURSIVE IsBuiltin(_)
\* a scalar, a dict with str keys, a list, or any nesting of dicts and lists
IsBuiltin(x) ==
    CASE x.t = "scalar" -> TRUE
      [] x.t = "dict" ->
            \A n \in 1..Len(x.c[1]) : IsStr(x.c[1][n][1]) /\ IsBuiltin(x.c[1][n][2])
      [] x.t = "list" -> \A n \in 1..Len(x.c[1]) : IsBuiltin(x.c[1][n][1])
      [] OTHER -> FALSE

RECURSIVE IsGeneric(_)
\* a generic hierarchical value with an unregistered tag whose children are
\* records with a scalar or, again, such a value
IsGeneric(x) ==
    /\ x.t = "HierarchicalValueTuple"
    /\ Lookup(ENCODERS, x.a[1]) = 0
    /\ Lookup(DECODERS, x.a[1]) = 0
    /\ \A n \in 1..Len(x.c[1]) :
          /\ Len(x.c[1][n]) = 2
          /\ x.c[1][n][2].t = "scalar" \/ IsGeneric(x.c[1][n][2])

RECURSIVE Depth(_)
\* nesting depth of a value: 0 for a value without children
Depth(x) ==
    IF x.c = None \/ x.c[1] = <<>> THEN 0
    ELSE LET ch == x.c[1]
             d == [n \in 1..Len(ch) |-> Depth(ch[n][Len(ch[n])])]
         IN  1 + (CHOOSE m \in {d[n] : n \in 1..Len(ch)} : \A n \in 1..Len(ch) : d[n] <= m)

C1_Case ==
    /\ origin = "write"
    /\ wprefix = <<>>
    /\ cfg = DefaultConfig
    /\ Len(lines) = 1
    /\ IsBuiltin(lines[1][2])

\* C1: for a built-in value V (scalar, dict with str keys, list, nested),
\* list(read(write([("k", V)]))) with the default registries raises nothing
\* and is exactly [("k", V)]: write returns, read never raises, what read has
\* yielded is always a prefix of the input, and read returns, having pulled
\* the whole stream, with exactly the input.
C1_RoundTripBuiltin ==
    C1_Case =>
        /\ ~WriteRaised
        /\ ~ReadRaised
        /\ Len(Decoded) <= 1
        /\ Decoded = SubSeq(lines, 1, Len(Decoded))
        /\ ReadReturned => Decoded = lines /\ pos = Len(wire)
        /\ wst = "done" /\ pos = Len(wire) => ReadReturned

C1_Witness ==
    /\ C1_Case
    /\ ReadReturned
    /\ Depth(lines[1][2]) = 2
    /\ Decoded = lines

C2_Case ==
    /\ origin = "write"
    /\ cfg = FallbackConfig
    /\ Len(lines) = 1
    /\ IsGeneric(lines[1][2])

\* C2: for a generic hierarchical value G with an unregistered tag,
\* list(read(write([("k", G)]), default=None)) raises nothing and is
\* [("k", G')] with G' a HierarchicalValueTuple of the same tag, scalar and
\* children, in the same order, as G.
C2_RoundTripGeneric ==
    C2_Case =>
        /\ ~WriteRaised
        /\ ~ReadRaised
        /\ Len(Decoded) <= 1
        /\ \A n \in 1..Len(Decoded) :
              /\ Decoded[n][1] = lines[n][1]
              /\ Decoded[n][2].t = "HierarchicalValueTuple"
              /\ Decoded[n][2].a = lines[n][2].a
              /\ Decoded[n][2].v = lines[n][2].v
              /\ Decoded[n][2].c = lines[n][2].c
        /\ ReadReturned => Len(Decoded) = 1 /\ pos = Len(wire)
        /\ wst = "done" /\ pos = Len(wire) => ReadReturned

C2_Witness ==
    /\ C2_Case
    /\ ReadReturned
    /\ Depth(lines[1][2]) = 2
    /\ wprefix # <<>>
    /\ Decoded = lines

\* ------------------------------------------------- stream structure, as
\* the notation defines it: a record whose annotation contains '>' opens a
\* block, a terminal marker closes the innermost open block
HasGT(ann) == \E n \in 1..Len(ann) : ann[n] = ">"
OpensBlock(x) == x.i = "rec" /\ x.p.a # None /\ HasGT(x.p.a[1])
FirstGT(ann) == CHOOSE n \in 1..Len(ann) : ann[n] = ">" /\ \A m \in 1..(n - 1) : ann[m] # ">"
TagOf(x) == [n \in 1..(FirstGT(x.p.a[1]) - 1) |-> x.p.a[1][n]]
SuffixOf(x) ==
    [n \in 1..(Len(x.p.a[1]) - FirstGT(x.p.a[1])) |-> x.p.a[1][FirstGT(x.p.a[1]) + n]]
Fits(key, prefix) ==
    /\ Len(prefix) <= Len(key)
    /\ \A n \in 1..Len(prefix) : key[n] = prefix[n]
Strip(key, prefix) == [n \in 1..(Len(key) - Len(prefix)) |-> key[Len(prefix) + n]]

RECURSIVE MatchEndFrom(_, _, _)
\* index of the marker that closes the block open at depth d before item n,
\* 0 when the stream ends first
MatchEndFrom(s, n, d) ==
    IF n > Len(s) THEN 0
    ELSE IF s[n].i = "nl" THEN (IF d = 1 THEN n ELSE MatchEndFrom(s, n + 1, d - 1))
    ELSE IF OpensBlock(s[n]) THEN MatchEndFrom(s, n + 1, d + 1)
    ELSE MatchEndFrom(s, n + 1, d)

\* index of the marker closing the block of the header at index h
MatchEnd(s, h) == MatchEndFrom(s, h + 1, 1)

\* index of the marker closing the block that starts with the first item
OwnEnd(s) == MatchEndFrom(s, 1, 1)

RECURSIVE OwnKeysFrom(_, _, _)
\* keys of the records of the block that starts at item 1 (not of nested ones)
OwnKeysFrom(s, n, d) ==
    IF n > Len(s) THEN <<>>
    ELSE IF s[n].i = "nl" THEN (IF d = 1 THEN <<>> ELSE OwnKeysFrom(s, n + 1, d - 1))
    ELSE IF s[n].i = "none" THEN OwnKeysFrom(s, n + 1, d)
    ELSE (IF d = 1 THEN <<s[n].k>> ELSE <<>>)
            \o OwnKeysFrom(s, n + 1, IF OpensBlock(s[n]) THEN d + 1 ELSE d)

RECURSIVE ExpectedPrefix(_, _, _, _)
\* the prefix of the frame that pulls item n, when item m is pulled by a
\* frame whose enclosing prefixes, innermost last, are stack
ExpectedPrefix(s, m, stack, n) ==
    IF m = n \/ stack = <<>> THEN (IF stack = <<>> THEN <<>> ELSE stack[Len(stack)])
    ELSE IF s[m].i = "nl" THEN ExpectedPrefix(s, m + 1, SubSeq(stack, 1, Len(stack) - 1), n)
    ELSE IF OpensBlock(s[m])
         THEN ExpectedPrefix(s, m + 1, Append(stack, stack[Len(stack)] \o SuffixOf(s[m])), n)
    ELSE ExpectedPrefix(s, m + 1, stack, n)

\* the latest next() pulled at least the item at index At
Pulled == last.g # 0 /\ last.from < Len(wire)
At == last.from + 1
PullPrefix == gens[last.g].prefix

\* the latest next() ran read_single on a header that passed the prefix check
HeaderPull == Pulled /\ OpensBlock(wire[At]) /\ Fits(wire[At].k, PullPrefix)
UnknownTag == Lookup(DECODERS, TagOf(wire[At])) = 0

\* the block of the header at At is closed and holds only leaf records with
\* keys under the block's prefix
FlatBlock ==
    /\ MatchEnd(wire, At) # 0
    /\ \A n \in (At + 1)..(MatchEnd(wire, At) - 1) :
          /\ wire[n].i = "rec"
          /\ ~OpensBlock(wire[n])
          /\ Fits(wire[n].k, PullPrefix \o SuffixOf(wire[At]))

\* the records of that block, keys without the block's prefix
FlatChildren ==
    [n \in 1..(MatchEnd(wire, At) - At - 1) |->
        <<Strip(wire[At + n].k, PullPrefix \o SuffixOf(wire[At])), wire[At + n].p>>]

\* C3 as stated: a header with an unregistered tag, read with the registry
\* and no default argument, yields (key, generic value) and raises nothing
C3_FallbackWhenNothingSupplied ==
    (HeaderPull /\ UnknownTag /\ FlatBlock /\ cfg = DefaultConfig) =>
        /\ last.r.st = "pair"
        /\ last.r.val = HierarchicalValueTuple(TagOf(wire[At]), wire[At].p.v, FlatChildren)

\* C3 amended: the generic fallback is the behaviour when the caller passes
\* default=None: read_single then yields (key, HierarchicalValueTuple(tag,
\* scalar, children in stream order)) and never raises 'unrecognized
\* annotation'; with no default argument (default=raise_decoding_error) a
\* header with an unregistered tag raises DecodingError 'unrecognized
\* annotation' before any record of its block is pulled.
C3_FallbackOnDefaultNone ==
    /\ (HeaderPull /\ UnknownTag /\ cfg = FallbackConfig) =>
          /\ last.r.msg # "unrecognized annotation"
          /\ FlatBlock =>
                /\ last.r.st = "pair"
                /\ last.r.key = Strip(wire[At].k, PullPrefix)
                /\ last.r.val =
                      HierarchicalValueTuple(TagOf(wire[At]), wire[At].p.v, FlatChildren)
    /\ (HeaderPull /\ UnknownTag /\ cfg = DefaultConfig) =>
          /\ last.r.st = "DecodingError"
          /\ last.r.msg = "unrecognized annotation"
          /\ last.r.pos = At
    /\ last.r.msg = "unrecognized annotation" => cfg = DefaultConfig

C3_Witness ==
    /\ HeaderPull /\ UnknownTag /\ FlatBlock
    /\ cfg = FallbackConfig
    /\ origin = "raw"
    /\ last.r.st = "pair"
    /\ Len(last.r.val.c[1]) = 1

\* C4 as stated: when read_single yields the pair of a header, in any
\* configuration, the stream has been pulled up to and including the marker
\* that closes the header's block
C4_BlockDrainedAtYield ==
    (HeaderPull /\ last.r.st = "pair") =>
        /\ MatchEnd(wire, At) # 0
        /\ last.r.pos = MatchEnd(wire, At)

\* C7: a record with a plain scalar, or with an annotation without '>', whose
\* key has the frame's prefix, makes read_single yield (key without the
\* prefix, the payload as it was) after pulling that one record only.
C7_LeafPassthrough ==
    (Pulled /\ wire[At].i = "rec" /\ ~OpensBlock(wire[At]) /\ Fits(wire[At].k, PullPrefix)) =>
        /\ last.r.st = "pair"
        /\ last.r.key = Strip(wire[At].k, PullPrefix)
        /\ last.r.val = wire[At].p
        /\ ~last.r.lazy
        /\ last.r.pos = At
        /\ pos = At

C7_Witness ==
    /\ Pulled /\ wire[At].i = "rec" /\ ~OpensBlock(wire[At])
    /\ PullPrefix # <<>>
    /\ Fits(wire[At].k, PullPrefix)
    /\ At < Len(wire)
    /\ last.r.st = "pair"

\* C8 as stated: when read returns it has just pulled the marker that closes
\* its own block, and it has yielded one pair per record of that block, in
\* stream order
C8_StopsAtOwnMarker ==
    (last.g = 1 /\ last.r.st = "stop") =>
        /\ last.r.pos = OwnEnd(wire)
        /\ LET pairs == SelectSeq(Decoded, LAMBDA y : y # <<>>)
           IN  [n \in 1..Len(pairs) |-> pairs[n][1]] = OwnKeysFrom(wire, 1, 1)

\* C9 as stated (any error stands for the end-of-stream error): a header
\* whose block is not closed before the stream ends raises, and no pair is
\* yielded for it
C9_UnterminatedRaises ==
    (HeaderPull /\ MatchEnd(wire, At) = 0) => last.r.st \in Errors

\* C10: (a) the read generator of a block has the prefix of the frame that
\* pulled the block's header followed by the text after the first '>' of the
\* header's annotation; (b) a record whose key does not start with the
\* prefix of the frame that pulls it raises DecodingError at once, and that
\* error is raised for no other record; (c) the keys handed to the caller,
\* and those of the children of a decoded block, have the prefix removed.
C10_PrefixDiscipline ==
    /\ \A n \in 2..Len(gens) :
          gens[n].prefix = gens[gens[n].parent].prefix \o SuffixOf(wire[gens[n].hdr])
    /\ Pulled =>
          /\ \A n \in At..last.r.pos :
                (wire[n].i = "rec"
                    /\ ~Fits(wire[n].k, ExpectedPrefix(wire, At, <<PullPrefix>>, n)))
                => /\ n = last.r.pos
                   /\ last.r.st = "DecodingError"
                   /\ last.r.msg = "key is supposed to start with prefix"
          /\ last.r.msg = "key is supposed to start with prefix" =>
                /\ wire[last.r.pos].i = "rec"
                /\ ~Fits(wire[last.r.pos].k,
                         ExpectedPrefix(wire, At, <<PullPrefix>>, last.r.pos))
          /\ last.r.st = "pair" => last.r.key = Strip(wire[At].k, PullPrefix)
          /\ (HeaderPull /\ FlatBlock /\ last.r.st = "pair"
                /\ last.r.val.t \in {"dict", "HierarchicalValueTuple"}) =>
                {last.r.val.c[1][n][1] : n \in 1..Len(last.r.val.c[1])}
                    = {FlatChildren[n][1] : n \in 1..Len(FlatChildren)}

C10_Witness ==
    /\ Pulled
    /\ last.r.msg = "key is supposed to start with prefix"
    /\ last.r.pos = At + 2
    /\ Len(ExpectedPrefix(wire, At, <<PullPrefix>>, last.r.pos)) = 2

\* ---------------------------------------------------------- written stream
\* how many of the first n items of s are markers, and how many are headers
Markers(s, n) == Cardinality({m \in 1..n : s[m].i = "nl"})
Headers(s, n) == Cardinality({m \in 1..n : OpensBlock(s[m])})

\* markers and headers of s are balanced: s ends with a marker, it has one
\* marker more than headers, and before its end never more markers than headers
Balanced(s) ==
    /\ s # <<>>
    /\ s[Len(s)] = NL
    /\ Markers(s, Len(s)) = Headers(s, Len(s)) + 1
    /\ \A n \in 0..(Len(s) - 1) : Markers(s, n) <= Headers(s, n)

\* C5 as stated: whatever (key, value) lines write is given, the stream it
\* has produced when it stops is balanced
C5_MarkerBalance ==
    (origin = "write" /\ wst # "running") => Balanced(wire)

C6_Case ==
    /\ origin = "write"
    /\ Len(lines) = 1
    /\ lines[1][2].t = "tuple"
    /\ lines[1][2].c = None

\* C6 as stated: for a value (annotation, scalar) the encoder raises no
\* error and produces one record that carries the annotation, no nested
\* block and no marker of its own (write adds the one marker of its block)
C6_AnnotatedScalarOpensNoBlock ==
    C6_Case =>
        /\ ~WriteRaised
        /\ wst = "done" =>
              /\ Len(wire) = 2
              /\ wire[1].i = "rec"
              /\ wire[1].p.a # None
              /\ Fits(wire[1].p.a[1], lines[1][2].a[1])
              /\ wire[2] = NL

\* ------------------------------------------------ blocks of leaf records
\* the first next() of read ran read_single on the header of a raw block
BlockPull == origin = "raw" /\ last.g = 1 /\ last.from = 0 /\ OpensBlock(wire[1])

\* the records between the header and the terminal marker of its block
NChildren == MatchEnd(wire, 1) - 2
Child(n) == wire[1 + n]
OnlyRecords == \A n \in 1..NChildren : Child(n).i = "rec"

\* the first and the last child record that carries the key
FirstWith(key) == CHOOSE n \in 1..NChildren : Child(n).k = key /\ \A m \in 1..(n - 1) : Child(m).k # key
LastWith(key) == CHOOSE n \in 1..NChildren : Child(n).k = key /\ \A m \in (n + 1)..NChildren : Child(m).k # key

\* the same stream with another spelling of the header's tag
Respelled(tag) == [wire EXCEPT ![1] = Rec(wire[1].k, Tuple2(tag \o <<GT>> \o SuffixOf(wire[1]), wire[1].p.v))]

C11_Case ==
    /\ BlockPull
    /\ TagOf(wire[1]) \in {Map_, M_}
    /\ wire[1].p.v = ""
    /\ cfg.decoders = Some(DECODERS)
    /\ OnlyRecords

\* C11: a 'Map' or 'M' header with an empty scalar, n child records and the
\* terminal marker decode to (key, dict) where the dict holds exactly the
\* child keys, each once, in the order of their first record, each with the
\* value of its last record; the other alias gives the same dict.
C11_MapDecode ==
    C11_Case =>
        /\ last.r.st = "pair"
        /\ last.r.key = wire[1].k
        /\ last.r.pos = MatchEnd(wire, 1)
        /\ last.r.val.t = "dict"
        /\ LET items == last.r.val.c[1] IN
            /\ {items[n][1] : n \in 1..Len(items)} = {Child(n).k : n \in 1..NChildren}
            /\ \A n, m \in 1..Len(items) :
                  n < m => FirstWith(items[n][1]) < FirstWith(items[m][1])
            /\ \A n \in 1..Len(items) : items[n][2] = Child(LastWith(items[n][1])).p
        /\ \A tag \in {Map_, M_} :
              ReadNext(Respelled(tag), 0, cfg, <<>>).val = last.r.val

\* a key written twice: {'a': b'', 'b': b'v'} from a:v, b:v, a:''
C11_Witness ==
    /\ C11_Case
    /\ NChildren = 3
    /\ last.r.st = "pair"
    /\ last.r.val = Dict(<< <<<<"a">>, Scalar("")>>, <<<<"b">>, Scalar("v")>> >>)

C12_Case ==
    /\ BlockPull
    /\ TagOf(wire[1]) \in {List_, L_}
    /\ wire[1].p.v = ""
    /\ cfg.decoders = Some(DECODERS)
    /\ OnlyRecords

Keyed12 == {n \in 1..NChildren : Child(n).k # <<>>}

\* C12: a 'List' or 'L' header with an empty scalar decodes to (key, list of
\* the children's values in stream order) when every child key is empty;
\* when a child record has a non-empty key DecodingError is raised right
\* after the first such record is pulled, nothing having been yielded.
C12_ListDecode ==
    C12_Case =>
        IF Keyed12 = {}
        THEN /\ last.r.st = "pair"
             /\ last.r.key = wire[1].k
             /\ last.r.pos = MatchEnd(wire, 1)
             /\ last.r.val = List([n \in 1..NChildren |-> <<Child(n).p>>])
        ELSE /\ last.r.st = "DecodingError"
             /\ last.r.msg = "key is supposed to be empty"
             /\ \A n \in Keyed12 : last.r.pos <= 1 + n
             /\ last.r.pos - 1 \in Keyed12
             /\ Decoded = <<>>

\* a keyed second child: DecodingError once it is pulled, the third child unread
C12_Witness ==
    /\ C12_Case
    /\ Keyed12 = {2, 3}
    /\ last.r.pos = 3
    /\ ReadRaised

\* -------------------------------------------------- automatic detection
RECURSIVE Detected(_, _, _, _, _)
RECURSIVE DetectedAll(_, _, _, _, _)
\* The records stated for a built-in value x written under key with the
\* prefix p: a leaf for a scalar; for a dict (list) the header
\* (key, ('M>' + p, b'')) (resp. 'L>' + p), the records of its entries in
\* order under the entry's key (resp. the empty key), nested values
\* likewise, and one terminal marker.  acc is what precedes the key; when
\* nesting is TRUE the entries of a block are written with acc + p before
\* their keys, otherwise with nothing before them.
Detected(key, x, p, acc, nesting) ==
    IF x.t = "scalar" THEN <<Rec(acc \o key, x)>>
    ELSE LET tag == IF x.t = "dict" THEN M_ ELSE L_
             entries == [n \in 1..Len(x.c[1]) |->
                            IF x.t = "dict" THEN x.c[1][n] ELSE << <<>>, x.c[1][n][1] >>]
         IN  <<Rec(acc \o key, Tuple2(tag \o <<GT>> \o p, ""))>>
                \o DetectedAll(entries, 1, p, IF nesting THEN acc \o p ELSE <<>>, nesting)
                \o <<NL>>
DetectedAll(entries, n, p, acc, nesting) ==
    IF n > Len(entries) THEN <<>>
    ELSE Detected(entries[n][1], entries[n][2], p, acc, nesting)
            \o DetectedAll(entries, n + 1, p, acc, nesting)

\* write over one (key, value) line, the value a dict or a list with no
\* annotation, built of dicts with str keys, lists and scalars, has ended
C13_Case ==
    /\ origin = "write"
    /\ Len(lines) = 1
    /\ lines[1][2].t \in {"dict", "list"}
    /\ IsBuiltin(lines[1][2])
    /\ wst # "running"

\* C13 as stated: the header (key, ('M>' + prefix, b'')), one record per
\* entry in insertion order under the entry's key (the empty key for a
\* list), nested values likewise, then one terminal marker.
C13_EntriesUnderTheirKeys ==
    C13_Case =>
        /\ wst = "done"
        /\ wire = Detected(lines[1][1], lines[1][2], wprefix, <<>>, FALSE) \o <<NL>>

\* C13, amended: the same records, the key of each record inside a block
\* being preceded by the prefix once for every enclosing block.
C13_EntriesUnderPrefixedKeys ==
    C13_Case =>
        /\ wst = "done"
        /\ wire = Detected(lines[1][1], lines[1][2], wprefix, <<>>, TRUE) \o <<NL>>

\* {'a': {'b': b'v'}} written with prefix 'p': the inner entry is under 'ppb'
C13_Witness ==
    /\ C13_Case
    /\ wprefix = <<"p">>
    /\ Depth(lines[1][2]) = 2
    /\ \E n \in 1..Len(wire) : wire[n].i = "rec" /\ wire[n].k = <<"p", "p", "b">>
    /\ wire # Detected(lines[1][1], lines[1][2], wprefix, <<>>, FALSE) \o <<NL>>

\* ------------------------------------------ children without annotation
IsOrphan(x) == x.t = "HierarchicalValueTuple" /\ x.a = None /\ x.c # None
IsScalar(x) == x.t = "scalar"

\* the first line whose value has children and no annotation, 0 when none
FirstOrphan ==
    IF \E n \in 1..Len(lines) : IsOrphan(lines[n][2])
    THEN CHOOSE n \in 1..Len(lines) :
            IsOrphan(lines[n][2]) /\ \A m \in 1..(n - 1) : ~IsOrphan(lines[m][2])
    ELSE 0

\* the plain leaves of the first n lines
TopLeaves(n) == [m \in 1..n |-> Rec(lines[m][1], lines[m][2])]

\* write has ended over lines that are scalars or values with children and no annotation
C14_TopCase ==
    /\ origin = "write"
    /\ wst # "running"
    /\ \A n \in 1..Len(lines) : IsScalar(lines[n][2]) \/ IsOrphan(lines[n][2])

\* write has ended over one composite whose first entry has children and
\* no annotation (a detected dict, or a generic value with an annotation)
C14_NestedCase ==
    /\ origin = "write"
    /\ wst # "running"
    /\ Len(lines) = 1
    /\ \/ lines[1][2].t = "dict" /\ Detect(wcfg.types, lines[1][2]) # 0
       \/ lines[1][2].t = "HierarchicalValueTuple" /\ lines[1][2].a # None
    /\ lines[1][2].c[1] # <<>>

\* C14: a value with children and no annotation, given or detected, makes
\* write_single raise DecodingError without a record for it: the output is
\* the records of what came before it and nothing more, no terminal marker
\* either; a value with neither annotation nor children is written as the
\* one leaf (prefixes + key, value).
C14_ChildrenNeedAnnotation ==
    /\ C14_TopCase =>
          IF FirstOrphan = 0
          THEN wst = "done" /\ wire = TopLeaves(Len(lines)) \o <<NL>>
          ELSE wst = "DecodingError" /\ wire = TopLeaves(FirstOrphan - 1)
    /\ C14_NestedCase =>
          LET first == lines[1][2].c[1][1] IN
          /\ IsOrphan(first[2]) =>
                wst = "DecodingError" /\ Len(wire) = 1 /\ OpensBlock(wire[1])
          /\ IsScalar(first[2]) /\ lines[1][2].t = "HierarchicalValueTuple" =>
                /\ wst = "done"
                /\ wire[2] = Rec(wprefix \o first[1], first[2])

\* an orphan after a sibling: the sibling's leaf is out, then DecodingError
C14_Witness ==
    /\ C14_TopCase
    /\ FirstOrphan = 2
    /\ wst = "DecodingError"
    /\ wire = <<Rec(<<"j">>, Scalar("v"))>>

\* an orphan as the entry of a dict written with prefix 'p'
C14_NestedWitness ==
    /\ C14_NestedCase
    /\ wprefix = <<"p">>
    /\ IsOrphan(lines[1][2].c[1][1][2])
    /\ wst = "DecodingError"

\* ------------------------------------------------- keys that are not str
\* a dict of scalars with a key that is not a str
HasNotStr(x) ==
    /\ x.t = "dict"
    /\ \A n \in 1..Len(x.c[1]) : IsScalar(x.c[1][n][2])
    /\ \E n \in 1..Len(x.c[1]) : x.c[1][n][1] = NotStr

FirstNotStr(x) ==
    CHOOSE n \in 1..Len(x.c[1]) :
        x.c[1][n][1] = NotStr /\ \A m \in 1..(n - 1) : x.c[1][m][1] # NotStr

\* write has ended over scalars and one such dict, detected as a mapping
C15_Case ==
    /\ origin = "write"
    /\ wst # "running"
    /\ \E n \in 1..Len(lines) :
          /\ HasNotStr(lines[n][2])
          /\ Detect(wcfg.types, lines[n][2]) # 0
          /\ \A m \in 1..Len(lines) : m # n => IsScalar(lines[m][2])

C15_Line == CHOOSE n \in 1..Len(lines) : HasNotStr(lines[n][2])

\* write has ended over a dict whose first entry is a dict with only a key that is not a str
C15_NestedCase ==
    /\ origin = "write"
    /\ wst # "running"
    /\ Len(lines) = 1
    /\ lines[1][2].t = "dict"
    /\ Detect(wcfg.types, lines[1][2]) # 0
    /\ lines[1][2].c[1] # <<>>
    /\ HasNotStr(lines[1][2].c[1][1][2])
    /\ FirstNotStr(lines[1][2].c[1][1][2]) = 1

\* C15: at the first entry of a mapping whose key is not a str the encode
\* raises ValueError; the output is what was written before that entry (the
\* earlier lines, the header, the earlier entries) and nothing after it: no
\* record for the entry, for a later entry or a later sibling, no terminal
\* marker.
C15_NonStrKeyAborts ==
    /\ C15_Case =>
          LET x == lines[C15_Line][2]
              items == x.c[1]
              tag == wcfg.types[Detect(wcfg.types, x)].annotation
          IN  /\ wst = "ValueError"
              /\ wire = TopLeaves(C15_Line - 1)
                          \o <<Rec(lines[C15_Line][1], Tuple2(tag \o <<GT>> \o wprefix, ""))>>
                          \o [m \in 1..(FirstNotStr(x) - 1) |-> Rec(wprefix \o items[m][1], items[m][2])]
    /\ C15_NestedCase =>
          /\ wst = "ValueError"
          /\ Len(wire) = 2
          /\ OpensBlock(wire[1]) /\ OpensBlock(wire[2])

\* {'a': ., 1: ., 'b': .} before a sibling: the header and 'a', then ValueError
C15_Witness ==
    /\ C15_Case
    /\ C15_Line = 1
    /\ Len(lines) = 2
    /\ Len(lines[1][2].c[1]) = 3
    /\ FirstNotStr(lines[1][2]) = 2
    /\ wst = "ValueError"
    /\ Len(wire) = 2

\* ------------------------------------------------------- skip sentinels
\* the stream without its skip sentinels, the yielded items without the None
NoSkips(s) == SelectSeq(s, LAMBDA x : x.i # "none")
Pairs(items) == SelectSeq(items, LAMBDA x : Len(x) = 2)

\* list(read(...)) over the stream without its skip sentinels
Unskipped == Consume("tuple", NoSkips(wire), 0, cfg, <<>>, <<>>)

\* a raw stream that holds skip sentinels and, without them, is decoded
\* without an error up to the terminal marker that ends read
C16_Case ==
    /\ origin = "raw"
    /\ cfg.decoders # None
    /\ NoSkips(wire) # wire
    /\ Unskipped.st = "ok"

\* C16: skip sentinels anywhere in a well-formed stream, between the child
\* records of a Map or List block too, raise no error, and the (key, value)
\* pairs decoded are those of the stream without the sentinels.
C16_SkipIsNoOp ==
    C16_Case =>
        /\ ~ReadRaised
        /\ ReadReturned => Pairs(Decoded) = Unskipped.items

\* ------------------------------------------- prefixes, writer and reader
\* how many blocks are open before item n of s
DepthAt(s, n) == Headers(s, n - 1) - Markers(s, n - 1)

RECURSIVE Repeat(_, _)
\* p repeated d times
Repeat(p, d) == IF d <= 0 THEN <<>> ELSE p \o Repeat(p, d - 1)

\* C17: in the output of write with prefix p every header's annotation is
\* tag + '>' + p, and the key of every record inside d open blocks starts
\* with the concatenation of the suffixes of the d enclosing headers, which
\* is p d times; read from the empty prefix over that output never raises
\* the prefix-mismatch error and, when write has returned and read returns,
\* has yielded the lines that were written, their keys without prefixes.
C17_PrefixAgreement ==
    origin = "write" =>
        /\ \A n \in 1..Len(wire) :
              /\ OpensBlock(wire[n]) => SuffixOf(wire[n]) = wprefix
              /\ wire[n].i = "rec" =>
                    /\ ExpectedPrefix(wire, 1, <<<<>>>>, n) = Repeat(wprefix, DepthAt(wire, n))
                    /\ Fits(wire[n].k, ExpectedPrefix(wire, 1, <<<<>>>>, n))
        /\ last.r.msg # "key is supposed to start with prefix"
        /\ (wst = "done" /\ ReadReturned) => Decoded = lines

\* written with prefix 'p', a record two blocks deep has its key after 'pp',
\* and read gives the value back
C17_Witness ==
    /\ origin = "write"
    /\ wprefix = <<"p">>
    /\ \E n \in 1..Len(wire) :
          /\ wire[n].i = "rec"
          /\ DepthAt(wire, n) = 2
          /\ Len(wire[n].k) = 3
    /\ ReadReturned
    /\ Decoded = lines

\* ------------------------------------------------------ registry lookup
\* the entries of a registry whose alias set holds the tag
Holding(registry, tag) == {n \in 1..Len(registry) : tag \in registry[n].aliases}
Earliest(S) == CHOOSE n \in S : \A m \in S : n <= m

\* the spellings that only the entry n of the registry holds
OwnSpellings(registry, n) ==
    {tag \in registry[n].aliases : Holding(registry, tag) = {n}}

\* read_single has decoded a raw block of records whose tag the registry holds
C18_ReadCase ==
    /\ BlockPull
    /\ wire[1].p.v = ""
    /\ OnlyRecords
    /\ cfg.decoders # None
    /\ Holding(cfg.decoders[1], TagOf(wire[1])) # {}

\* write has ended over one list (resp. flat dict or list of scalars) whose
\* detected tag the encoder registry holds
C18_WriteCase ==
    /\ origin = "write"
    /\ wst # "running"
    /\ Len(lines) = 1
    /\ lines[1][2].t \in {"dict", "list"}
    /\ IsBuiltin(lines[1][2])
    /\ Detect(wcfg.types, lines[1][2]) # 0

C18_Tag == wcfg.types[Detect(wcfg.types, lines[1][2])].annotation

\* C18: the handler that read_single (write_single) runs for a tag is the
\* one of the first registry entry, in the registry's order, whose alias
\* set holds the tag, also when later entries hold it; every spelling that
\* only that entry holds gives the same result.
\*  - read_single: the outcome is that of a registry made of that entry
\*    alone: a dict from decode_map, a list or the error of ensure_empty_key
\*    from decode_list.
\*  - write_single: encode_list yields the elements of a list under the
\*    header and the terminal markers follow, encode_map fails on a list
\*    with AttributeError right after the header; a dict under encode_map is
\*    written as C13 says, whatever the spelling of the tag.
C18_FirstMatch ==
    /\ C18_ReadCase =>
          LET reg == cfg.decoders[1]
              first == Earliest(Holding(reg, TagOf(wire[1])))
              alone == [cfg EXCEPT !.decoders = Some(<<reg[first]>>)]
          IN  /\ last.r = ReadNext(wire, 0, alone, <<>>)
              /\ last.r.st = "pair" =>
                    last.r.val.t = (IF reg[first].handler = "decode_map" THEN "dict" ELSE "list")
              /\ reg[first].handler = "decode_map" => last.r.st = "pair"
              /\ (reg[first].handler = "decode_list" /\ Keyed12 # {}) => last.r.st = "DecodingError"
              /\ \A tag \in OwnSpellings(reg, first) :
                    ReadNext(Respelled(tag), 0, cfg, <<>>) = last.r
    /\ C18_WriteCase =>
          LET reg == wcfg.encoders
              first == Earliest(Holding(reg, C18_Tag))
              header == Rec(lines[1][1], Tuple2(C18_Tag \o <<GT>> \o wprefix, ""))
              stated == Detected(lines[1][1], lines[1][2], wprefix, <<>>, TRUE) \o <<NL>>
          IN  /\ Holding(reg, C18_Tag) # {}
              /\ wire[1] = header
              /\ IF (reg[first].handler = "encode_map") = (lines[1][2].t = "dict")
                 THEN wst = "done" /\ Tail(wire) = Tail(stated)
                 ELSE wst = "AttributeError" /\ wire = <<header>>

\* tag T, held by both entries, list entry first: the block is decoded as a list
C18_Witness ==
    /\ C18_ReadCase
    /\ TagOf(wire[1]) = T_
    /\ cfg.decoders = Some(ListFirstDecoders)
    /\ NChildren = 2
    /\ last.r.st = "pair"
    /\ last.r.val.t = "list"

\* a list detected as T with the map entry first: AttributeError after the header
C18_WriteWitness ==
    /\ C18_WriteCase
    /\ wcfg.encoders = MapFirstEncoders
    /\ Len(lines[1][2].c[1]) = 2
    /\ wst = "AttributeError"

\* ----------------------------------------------------------- termination
\* C19: over a finite stream, given as an iterator or as a list, read
\* yields no input record twice and does not go on for ever: what it has
\* yielded is never more than the items the stream holds.
C19_NoRecordTwice ==
    origin \in {"raw", "list"} => Len(Decoded) <= Len(wire)

====
